---- MODULE Spec2Model ----
\* Model of MoveSquare/main.cpp: an SDL3 program that opens an 800x600 window,
\* maps W/S/A/D key events to four movement flags, moves and clamps a square
\* once per frame, renders it and paces the frame to 60 FPS.
\*
\* Numbers.  The program's positions, speed, size and window dimensions are
\* C++ floats (IEEE-754 binary32).  A model integer n stands for the float
\* n / Unit pixels (Unit = 2^20), so every float that is a multiple of 2^-20
\* is represented exactly, and each float addition or subtraction is the
\* exact integer result rounded to 24 significant bits, ties to even (RoundF),
\* which is what the hardware does.  Frame times are floats too: a model
\* integer n stands for n / Unit milliseconds.
\*
\* Specifications.  Spec: main from its entry.  SpecLoop: the loop picked up
\* next to the window edges.  SpecUpdater: the update step over a range of
\* inputs.  SpecPace: the loop with no event, over a range of frame times.
\* SpecLive: the loop run to its end under weak fairness of the program.
EXTENDS Integers, Sequences, FiniteSets, TLC

\* ---------------------------------------------------------------- bounds
MaxFrames == 3      \* loop iterations explored per run
MaxEvents == 2      \* events the environment posts per run

\* ---------------------------------------------------------------- floats
Unit == 2^20                       \* model integers per pixel
Px(n) == n * Unit                  \* the float n.0f, in pixels
Ms(n) == n * Unit                  \* the float n.0f, in milliseconds

Abs(n) == IF n < 0 THEN -n ELSE n

\* Round the exact value n to the nearest binary32 (24-bit significand,
\* round-half-to-even).  Values below 2^24 units are exact.
RoundF(n) ==
    LET a == Abs(n)
        k == CHOOSE j \in 0..7 : (j = 7 \/ a < 2^(24 + j)) /\ (j = 0 \/ a >= 2^(23 + j))
        q == 2^k
        lo == (a \div q) * q
        rem == a - lo
        r == IF 2 * rem < q THEN lo
             ELSE IF 2 * rem > q THEN lo + q
             ELSE IF (a \div q) % 2 = 0 THEN lo ELSE lo + q
    IN  IF n < 0 THEN -r ELSE r

FAdd(a, b) == RoundF(a + b)        \* float a + b
FSub(a, b) == RoundF(a - b)        \* float a - b

\* ---------------------------------------------------------------- clock
\* const float targetFrameTimeMS = 1000.0f / 60.0f;  (16.666666 as a float)
TargetFrameTimeMS == RoundF(Ms(1000) \div 60)

\* elapsedMS as a clock makes it.  A run of the whole program sees a frame
\* that ends early and one that overruns; ElapsedInputs adds no time at all,
\* less than a millisecond short of the target, one float below the target
\* and the target itself.
ElapsedChoices == {Ms(5), Ms(20)}
ElapsedInputs ==
    {0, Ms(5), Ms(16), TargetFrameTimeMS - 2, TargetFrameTimeMS, Ms(20)}

\* ---------------------------------------------------------------- events
Scancodes == {"W", "S", "A", "D", "X"}      \* X: any other key
EventKinds ==
    {[type |-> "QUIT", scancode |-> "NONE"], [type |-> "OTHER", scancode |-> "NONE"],
     [type |-> "WINDOW_RESIZED", scancode |-> "NONE"]}
    \cup {[type |-> t, scancode |-> s] : t \in {"KEY_DOWN", "KEY_UP"}, s \in Scancodes}

VARIABLES
    pc,             \* position in main()
    sdl,            \* video subsystem initialised
    window,         \* window handle is live
    renderer,       \* renderer handle is live
    squareX, squareY, squareSize, moveSpeed,
    windowWidth, windowHeight,
    movingUp, movingDown, movingLeft, movingRight,
    running,
    queue,          \* SDL event queue, oldest first
    clock,          \* the values of elapsedMS this machine's clock produces
    elapsedMS,      \* elapsedMS of the last pacing step, -1: none yet
    delayMS,        \* argument of this frame's SDL_Delay call, -1: not called
    windowSize,     \* what SDL_GetWindowSize reports for the window
    exitCode,       \* return value of main, -1 while it runs
    \* ---- observation of the run
    frame,          \* loop iterations entered
    posted,         \* events posted so far (ids 1..posted)
    lastId,         \* id of the event dequeued last
    drained,        \* events dequeued in the current iteration
    flags0,         \* the four flags when the current iteration began
    prevPos,        \* position before the last update step
    drawn,          \* rectangle origin handed to SDL_RenderFillRect last
    trace,          \* steps of the current iteration, in execution order
    sleeps,         \* <<elapsedMS, delayMS>> of every pacing step so far
    acquired,       \* resources acquired, in order
    released,       \* resources released, in order
    logged          \* diagnostics written with SDL_Log

vars == <<pc, sdl, window, renderer, squareX, squareY, squareSize, moveSpeed,
          windowWidth, windowHeight, movingUp, movingDown, movingLeft,
          movingRight, running, queue, delayMS, exitCode, frame, posted,
          lastId, drained, flags0, prevPos, drawn, acquired, released, logged,
          clock, elapsedMS, windowSize, trace, sleeps>>

posVars == <<squareX, squareY>>
geomVars == <<squareSize, moveSpeed, windowWidth, windowHeight>>
flagVars == <<movingUp, movingDown, movingLeft, movingRight>>
resVars == <<sdl, window, renderer, acquired, released>>
obsVars == <<frame, posted, lastId, drained, flags0, prevPos, drawn>>
paceVars == <<clock, elapsedMS, delayMS, sleeps>>

Flags == [up |-> movingUp, down |-> movingDown, left |-> movingLeft, right |-> movingRight]
NoFlags == [up |-> FALSE, down |-> FALSE, left |-> FALSE, right |-> FALSE]

\* ---------------------------------------------------------------- start
\* Entry of main().  The locals declared at lines 24-53 do not exist yet and
\* hold placeholders until Setup assigns them.
Init ==
    /\ pc = "init"
    /\ sdl = FALSE /\ window = FALSE /\ renderer = FALSE
    /\ squareX = 0 /\ squareY = 0 /\ squareSize = 0 /\ moveSpeed = 0
    /\ windowWidth = 0 /\ windowHeight = 0
    /\ movingUp = FALSE /\ movingDown = FALSE
    /\ movingLeft = FALSE /\ movingRight = FALSE
    /\ running = FALSE
    /\ queue = <<>>
    /\ clock = ElapsedChoices
    /\ elapsedMS = -1 /\ delayMS = -1 /\ sleeps = {}
    /\ exitCode = -1
    /\ frame = 0 /\ posted = 0 /\ lastId = 0
    /\ drained = <<>> /\ flags0 = NoFlags
    /\ prevPos = <<0, 0>> /\ drawn = <<>>
    /\ acquired = <<>> /\ released = <<>> /\ logged = <<>>
    /\ windowSize = <<0, 0>> /\ trace = <<>>

\* if(!SDL_Init(SDL_INIT_VIDEO)) { SDL_Log(...); return 1; }
SDLInitOk ==
    /\ pc = "init"
    /\ sdl' = TRUE
    /\ acquired' = Append(acquired, "sdl")
    /\ pc' = "create"
    /\ UNCHANGED <<window, renderer, released, posVars, geomVars, flagVars,
                   running, queue, paceVars, exitCode, obsVars, logged, windowSize, trace>>

\* Mutant of SDLInitFail: the failure path returns 0.
SDLInitFailZero ==
    /\ pc = "init"
    /\ logged' = Append(logged, "Failed to initialize video!")
    /\ exitCode' = 0
    /\ pc' = "done"
    /\ UNCHANGED <<resVars, posVars, geomVars, flagVars, running, queue,
                   paceVars, obsVars, windowSize, trace>>

SDLInitFail ==
    /\ pc = "init"
    /\ logged' = Append(logged, "Failed to initialize video!")
    /\ exitCode' = 1
    /\ pc' = "done"
    /\ UNCHANGED <<resVars, posVars, geomVars, flagVars, running, queue,
                   paceVars, obsVars, windowSize, trace>>

\* if (!SDL_CreateWindowAndRenderer(..., 800, 600, 0, &window, &renderer)) {...}
CreateOk ==
    /\ pc = "create"
    /\ window' = TRUE
    /\ renderer' = TRUE
    /\ acquired' = acquired \o <<"window", "renderer">>
    /\ windowSize' = <<800, 600>>
    /\ pc' = "setup"
    /\ UNCHANGED <<sdl, released, posVars, geomVars, flagVars, running, queue,
                   paceVars, exitCode, obsVars, logged, trace>>

\* Mutant of CreateFail: the failure path returns without SDL_Quit().
CreateFailLeak ==
    /\ pc = "create"
    /\ logged' = Append(logged, "Failed to create window and renderer")
    /\ exitCode' = 1
    /\ pc' = "done"
    /\ UNCHANGED <<resVars, posVars, geomVars, flagVars, running, queue,
                   paceVars, obsVars, windowSize, trace>>

CreateFail ==
    /\ pc = "create"
    /\ logged' = Append(logged, "Failed to create window and renderer")
    /\ sdl' = FALSE
    /\ released' = Append(released, "sdl")
    /\ exitCode' = 1
    /\ pc' = "done"
    /\ UNCHANGED <<window, renderer, acquired, posVars, geomVars, flagVars,
                   running, queue, paceVars, obsVars, windowSize, trace>>

\* Lines 24-53: the square, the window size, the flags, running.
Setup ==
    /\ pc = "setup"
    /\ squareX' = Px(100)
    /\ squareY' = Px(100)
    /\ squareSize' = Px(50)
    /\ moveSpeed' = Px(5)
    /\ windowWidth' = Px(windowSize[1])
    /\ windowHeight' = Px(windowSize[2])
    /\ movingUp' = FALSE /\ movingDown' = FALSE
    /\ movingLeft' = FALSE /\ movingRight' = FALSE
    /\ running' = TRUE
    /\ pc' = "loop"
    /\ UNCHANGED <<resVars, queue, paceVars, exitCode, obsVars, logged, windowSize, trace>>

\* ---------------------------------------------------------------- input
\* Mutant of OnKeyDown: the S case sets the flag of the W case.
OnKeyDownTypo(sc, f) ==
    CASE sc = "W" -> [f EXCEPT !.up = TRUE]
      [] sc = "S" -> [f EXCEPT !.up = TRUE]
      [] sc = "A" -> [f EXCEPT !.left = TRUE]
      [] sc = "D" -> [f EXCEPT !.right = TRUE]
      [] OTHER -> f

\* case SDL_EVENT_KEY_DOWN: switch (event.key.scancode) ... (lines 73-92)
OnKeyDown(sc, f) ==
    CASE sc = "W" -> [f EXCEPT !.up = TRUE]
      [] sc = "S" -> [f EXCEPT !.down = TRUE]
      [] sc = "A" -> [f EXCEPT !.left = TRUE]
      [] sc = "D" -> [f EXCEPT !.right = TRUE]
      [] OTHER -> f

\* Mutant of OnKeyUp: the release of W is not handled.
OnKeyUpNoW(sc, f) ==
    CASE sc = "S" -> [f EXCEPT !.down = FALSE]
      [] sc = "A" -> [f EXCEPT !.left = FALSE]
      [] sc = "D" -> [f EXCEPT !.right = FALSE]
      [] OTHER -> f

\* Mutant of OnKeyUp: the release of any other key clears all four flags.
OnKeyUpClearAll(sc, f) ==
    CASE sc = "W" -> [f EXCEPT !.up = FALSE]
      [] sc = "S" -> [f EXCEPT !.down = FALSE]
      [] sc = "A" -> [f EXCEPT !.left = FALSE]
      [] sc = "D" -> [f EXCEPT !.right = FALSE]
      [] OTHER -> NoFlags

\* case SDL_EVENT_KEY_UP: switch (event.key.scancode) ... (lines 93-111)
OnKeyUp(sc, f) ==
    CASE sc = "W" -> [f EXCEPT !.up = FALSE]
      [] sc = "S" -> [f EXCEPT !.down = FALSE]
      [] sc = "A" -> [f EXCEPT !.left = FALSE]
      [] sc = "D" -> [f EXCEPT !.right = FALSE]
      [] OTHER -> f

\* switch (event.type): the flags after one event
HandleFlags(e, f) ==
    CASE e.type = "KEY_DOWN" -> OnKeyDown(e.scancode, f)
      [] e.type = "KEY_UP" -> OnKeyUp(e.scancode, f)
      [] OTHER -> f

\* Mutant of HandleRunning: the quit event is ignored.
HandleRunningIgnore(e, r) == r

\* switch (event.type): running after one event
HandleRunning(e, r) == IF e.type = "QUIT" THEN FALSE ELSE r

\* Mutant of RestEvents: handing out one event flushes the queue.
RestEventsFlush(q) == <<>>

\* The event SDL_PollEvent hands out, and what it leaves in the queue.
NextEvent(q) == Head(q)
RestEvents(q) == Tail(q)

\* ---------------------------------------------------------------- update
\* Mutants of Move: "else if" for the second key; the first test negated.
MoveElseIf(c, minus, plus, speed) ==
    IF minus THEN FSub(c, speed) ELSE IF plus THEN FAdd(c, speed) ELSE c

MoveInverted(c, minus, plus, speed) ==
    LET c1 == IF ~minus THEN FSub(c, speed) ELSE c
    IN  IF plus THEN FAdd(c1, speed) ELSE c1

\* Lines 121-124 for one axis: the "minus" key first, then the "plus" key.
Move(c, minus, plus, speed) ==
    LET c1 == IF minus THEN FSub(c, speed) ELSE c
    IN  IF plus THEN FAdd(c1, speed) ELSE c1

\* Mutant of Clamp: the high clamp forgets the size of the square.
ClampNoSize(c, size, limit) ==
    LET c1 == IF c < 0 THEN 0 ELSE c
    IN  IF FAdd(c1, size) > limit THEN limit ELSE c1

\* Mutant of Clamp: a coordinate below 0 is reflected instead of set to 0.
ClampBounce(c, size, limit) ==
    LET c1 == IF c < 0 THEN -c ELSE c
    IN  IF FAdd(c1, size) > limit THEN FSub(limit, size) ELSE c1

\* Mutants of Clamp: the low clamp missing; the high clamp missing.
ClampNoLow(c, size, limit) ==
    IF FAdd(c, size) > limit THEN FSub(limit, size) ELSE c

ClampNoHigh(c, size, limit) == IF c < 0 THEN 0 ELSE c

\* Lines 127-130 for one axis: the low clamp, then the high clamp.
Clamp(c, size, limit) ==
    LET c1 == IF c < 0 THEN 0 ELSE c
    IN  IF FAdd(c1, size) > limit THEN FSub(limit, size) ELSE c1

UpdateX(x, left, right, speed, size, width) ==
    Clamp(Move(x, left, right, speed), size, width)

UpdateY(y, up, down, speed, size, height) ==
    Clamp(Move(y, up, down, speed), size, height)

\* ---------------------------------------------------------------- pacing
\* Mutant of DelayFor: a frame that took exactly the target time is delayed.
DelayForInclusive(elapsed) ==
    IF elapsed <= TargetFrameTimeMS
    THEN FSub(TargetFrameTimeMS, elapsed) \div Unit
    ELSE -1

\* if (elapsedMS < targetFrameTimeMS)
\*     SDL_Delay((Uint32)(targetFrameTimeMS - elapsedMS));
\* The cast of a positive float to Uint32 drops the fraction.
DelayFor(elapsed) ==
    IF elapsed < TargetFrameTimeMS
    THEN FSub(TargetFrameTimeMS, elapsed) \div Unit
    ELSE -1

\* ---------------------------------------------------------------- loop
InLoop == pc \in {"loop", "poll", "update", "colorBlack", "clear", "colorRed",
                  "fill", "present", "pace"}

\* What a resize leaves for SDL_GetWindowSize to report.
Resized(size) == IF size = <<800, 600>> THEN <<640, 480>> ELSE <<800, 600>>

\* The windowing system appends an event to the queue; with a resize event
\* the window has its new size.
PostEvent ==
    /\ InLoop
    /\ posted < MaxEvents
    /\ \E k \in EventKinds :
          /\ queue' = Append(queue, [type |-> k.type, scancode |-> k.scancode,
                                     id |-> posted + 1])
          /\ windowSize' = IF k.type = "WINDOW_RESIZED" THEN Resized(windowSize)
                           ELSE windowSize
    /\ posted' = posted + 1
    /\ UNCHANGED <<pc, resVars, posVars, geomVars, flagVars, running, paceVars,
                   exitCode, frame, lastId, drained, flags0, prevPos, drawn,
                   logged, trace>>

\* Mutant of LoopEnter: the loop condition is not tested.
LoopEnterAlways ==
    /\ pc = "loop"
    /\ frame < MaxFrames
    /\ frame' = frame + 1
    /\ drained' = <<>>
    /\ flags0' = Flags
    /\ delayMS' = -1
    /\ trace' = <<"frameStart">>
    /\ pc' = "poll"
    /\ UNCHANGED <<resVars, posVars, geomVars, flagVars, running, queue,
                   exitCode, posted, lastId, prevPos, drawn, logged,
                   clock, elapsedMS, sleeps, windowSize>>

\* while (running) { Uint64 frameStart = SDL_GetPerformanceCounter();
LoopEnter ==
    /\ pc = "loop"
    /\ running
    /\ frame < MaxFrames
    /\ frame' = frame + 1
    /\ drained' = <<>>
    /\ flags0' = Flags
    /\ delayMS' = -1
    /\ trace' = <<"frameStart">>
    /\ pc' = "poll"
    /\ UNCHANGED <<resVars, posVars, geomVars, flagVars, running, queue,
                   exitCode, posted, lastId, prevPos, drawn, logged,
                   clock, elapsedMS, sleeps, windowSize>>

LoopExit ==
    /\ pc = "loop"
    /\ ~running
    /\ pc' = "destroyRenderer"
    /\ UNCHANGED <<resVars, posVars, geomVars, flagVars, running, queue,
                   paceVars, exitCode, obsVars, logged, windowSize, trace>>

\* Mutant of PollEvent: a resize event makes the loop read the window size
\* again.
PollEventResize ==
    /\ pc = "poll"
    /\ queue # <<>>
    /\ LET e == NextEvent(queue)
           f == HandleFlags(e, Flags)
       IN  /\ queue' = RestEvents(queue)
           /\ running' = HandleRunning(e, running)
           /\ movingUp' = f.up
           /\ movingDown' = f.down
           /\ movingLeft' = f.left
           /\ movingRight' = f.right
           /\ lastId' = e.id
           /\ drained' = Append(drained, e)
           /\ windowWidth' = IF e.type = "WINDOW_RESIZED"
                             THEN Px(windowSize[1]) ELSE windowWidth
           /\ windowHeight' = IF e.type = "WINDOW_RESIZED"
                              THEN Px(windowSize[2]) ELSE windowHeight
    /\ trace' = Append(trace, "poll")
    /\ UNCHANGED <<pc, resVars, posVars, squareSize, moveSpeed, paceVars,
                   exitCode, frame, posted, flags0, prevPos, drawn, logged,
                   windowSize>>

\* while (SDL_PollEvent(&event)) { switch (event.type) ... }: one event
PollEvent ==
    /\ pc = "poll"
    /\ queue # <<>>
    /\ LET e == NextEvent(queue)
           f == HandleFlags(e, Flags)
       IN  /\ queue' = RestEvents(queue)
           /\ running' = HandleRunning(e, running)
           /\ movingUp' = f.up
           /\ movingDown' = f.down
           /\ movingLeft' = f.left
           /\ movingRight' = f.right
           /\ lastId' = e.id
           /\ drained' = Append(drained, e)
    /\ trace' = Append(trace, "poll")
    /\ UNCHANGED <<pc, resVars, posVars, geomVars, paceVars, exitCode, frame,
                   posted, flags0, prevPos, drawn, logged, windowSize>>

\* Mutant of DrainEnd: the drain also ends as soon as running is false.
DrainEndOnQuit ==
    /\ pc = "poll"
    /\ queue = <<>> \/ ~running
    /\ trace' = Append(trace, "poll")
    /\ pc' = "update"
    /\ UNCHANGED <<resVars, posVars, geomVars, flagVars, running, queue,
                   paceVars, exitCode, obsVars, logged, windowSize>>

\* SDL_PollEvent returns false: the queue is empty
DrainEnd ==
    /\ pc = "poll"
    /\ queue = <<>>
    /\ trace' = Append(trace, "poll")
    /\ pc' = "update"
    /\ UNCHANGED <<resVars, posVars, geomVars, flagVars, running, queue,
                   paceVars, exitCode, obsVars, logged, windowSize>>

\* Lines 121-130: move, then clamp
Update ==
    /\ pc = "update"
    /\ prevPos' = <<squareX, squareY>>
    /\ squareX' = UpdateX(squareX, movingLeft, movingRight, moveSpeed,
                          squareSize, windowWidth)
    /\ squareY' = UpdateY(squareY, movingUp, movingDown, moveSpeed,
                          squareSize, windowHeight)
    /\ trace' = Append(trace, "update")
    /\ pc' = "colorBlack"
    /\ UNCHANGED <<resVars, geomVars, flagVars, running, queue, paceVars,
                   exitCode, frame, posted, lastId, drained, flags0, drawn,
                   logged, windowSize>>

\* SDL_SetRenderDrawColor(renderer, 0, 0, 0, 255);
SetColorBlack ==
    /\ pc = "colorBlack"
    /\ trace' = Append(trace, "setColorBlack")
    /\ pc' = "clear"
    /\ UNCHANGED <<resVars, posVars, geomVars, flagVars, running, queue,
                   paceVars, exitCode, obsVars, logged, windowSize>>

\* SDL_RenderClear(renderer);
RenderClear ==
    /\ pc = "clear"
    /\ drawn' = <<>>
    /\ trace' = Append(trace, "clear")
    /\ pc' = "colorRed"
    /\ UNCHANGED <<resVars, posVars, geomVars, flagVars, running, queue,
                   paceVars, exitCode, frame, posted, lastId, drained, flags0,
                   prevPos, logged, windowSize>>

\* Mutant of SetColorRed: the square is not drawn before the frame is shown.
SetColorRedSkipFill ==
    /\ pc = "colorRed"
    /\ trace' = Append(trace, "setColorRed")
    /\ pc' = "present"
    /\ UNCHANGED <<resVars, posVars, geomVars, flagVars, running, queue,
                   paceVars, exitCode, obsVars, logged, windowSize>>

\* SDL_SetRenderDrawColor(renderer, 255, 0, 0, 255);
SetColorRed ==
    /\ pc = "colorRed"
    /\ trace' = Append(trace, "setColorRed")
    /\ pc' = "fill"
    /\ UNCHANGED <<resVars, posVars, geomVars, flagVars, running, queue,
                   paceVars, exitCode, obsVars, logged, windowSize>>

\* SDL_FRect squareRect = {squareX, squareY, squareSize, squareSize};
\* SDL_RenderFillRect(renderer, &squareRect);
RenderFillRect ==
    /\ pc = "fill"
    /\ drawn' = <<squareX, squareY>>
    /\ trace' = Append(trace, "fillRect")
    /\ pc' = "present"
    /\ UNCHANGED <<resVars, posVars, geomVars, flagVars, running, queue,
                   paceVars, exitCode, frame, posted, lastId, drained, flags0,
                   prevPos, logged, windowSize>>

\* SDL_RenderPresent(renderer);
RenderPresent ==
    /\ pc = "present"
    /\ trace' = Append(trace, "present")
    /\ pc' = "pace"
    /\ UNCHANGED <<resVars, posVars, geomVars, flagVars, running, queue,
                   paceVars, exitCode, obsVars, logged, windowSize>>

\* Mutant of Pace: the overrun of the frame before is taken off the sleep.
PaceCatchUp ==
    /\ pc = "pace"
    /\ \E elapsed \in clock :
          LET debt == IF elapsedMS > TargetFrameTimeMS
                      THEN FSub(elapsedMS, TargetFrameTimeMS) ELSE 0
              d == DelayFor(FAdd(elapsed, debt))
          IN  /\ elapsedMS' = elapsed
              /\ delayMS' = d
              /\ sleeps' = sleeps \cup {<<elapsed, d>>}
              /\ trace' = trace \o (IF d # -1
                                    THEN <<"frameEnd", "delay">>
                                    ELSE <<"frameEnd">>)
    /\ pc' = "loop"
    /\ UNCHANGED <<resVars, posVars, geomVars, flagVars, running, queue,
                   exitCode, obsVars, logged, windowSize, clock>>

\* Lines 151-156: measure the frame, sleep what is left of the target
Pace ==
    /\ pc = "pace"
    /\ \E elapsed \in clock :
          /\ elapsedMS' = elapsed
          /\ delayMS' = DelayFor(elapsed)
          /\ sleeps' = sleeps \cup {<<elapsed, DelayFor(elapsed)>>}
          /\ trace' = trace \o (IF DelayFor(elapsed) # -1
                                THEN <<"frameEnd", "delay">>
                                ELSE <<"frameEnd">>)
    /\ pc' = "loop"
    /\ UNCHANGED <<resVars, posVars, geomVars, flagVars, running, queue,
                   exitCode, obsVars, logged, windowSize, clock>>

\* ---------------------------------------------------------------- cleanup
DestroyRenderer ==
    /\ pc = "destroyRenderer"
    /\ renderer' = FALSE
    /\ released' = Append(released, "renderer")
    /\ pc' = "destroyWindow"
    /\ UNCHANGED <<sdl, window, acquired, posVars, geomVars, flagVars,
                   running, queue, paceVars, exitCode, obsVars, logged, windowSize, trace>>

DestroyWindow ==
    /\ pc = "destroyWindow"
    /\ window' = FALSE
    /\ released' = Append(released, "window")
    /\ pc' = "quit"
    /\ UNCHANGED <<sdl, renderer, acquired, posVars, geomVars, flagVars,
                   running, queue, paceVars, exitCode, obsVars, logged, windowSize, trace>>

\* SDL_Quit(); return 0;
SDLQuit ==
    /\ pc = "quit"
    /\ sdl' = FALSE
    /\ released' = Append(released, "sdl")
    /\ exitCode' = 0
    /\ pc' = "done"
    /\ UNCHANGED <<window, renderer, acquired, posVars, geomVars, flagVars,
                   running, queue, paceVars, obsVars, logged, windowSize, trace>>

Next ==
    \/ SDLInitOk \/ SDLInitFail \/ CreateOk \/ CreateFail \/ Setup
    \/ PostEvent \/ LoopEnter \/ LoopExit \/ PollEvent \/ DrainEnd
    \/ Update \/ SetColorBlack \/ RenderClear \/ SetColorRed \/ RenderFillRect
    \/ RenderPresent \/ Pace
    \/ DestroyRenderer \/ DestroyWindow \/ SDLQuit

Spec == Init /\ [][Next]_vars

\* ------------------------------------------------- the loop, from mid-run
\* A run of the loop picked up at the loop test with no key held and the
\* square at the start position or next to an edge: every multiple of 5 in
\* [0,750] x [0,550] is a position the program reaches by holding keys.
\* Every frame takes 5 ms here.
EdgeStarts ==
    {<<Px(100), Px(100)>>, <<Px(0), Px(0)>>, <<Px(5), Px(545)>>,
     <<Px(750), Px(550)>>, <<Px(745), Px(5)>>}

InitLoop ==
    /\ pc = "loop"
    /\ sdl = TRUE /\ window = TRUE /\ renderer = TRUE
    /\ \E p \in EdgeStarts : squareX = p[1] /\ squareY = p[2]
    /\ squareSize = Px(50) /\ moveSpeed = Px(5)
    /\ windowWidth = Px(800) /\ windowHeight = Px(600)
    /\ movingUp = FALSE /\ movingDown = FALSE
    /\ movingLeft = FALSE /\ movingRight = FALSE
    /\ running = TRUE
    /\ queue = <<>>
    /\ clock = {Ms(5)}
    /\ elapsedMS = -1 /\ delayMS = -1 /\ sleeps = {}
    /\ exitCode = -1
    /\ frame = 0 /\ posted = 0 /\ lastId = 0
    /\ drained = <<>> /\ flags0 = NoFlags
    /\ prevPos = <<squareX, squareY>> /\ drawn = <<>>
    /\ acquired = <<"sdl", "window", "renderer">> /\ released = <<>>
    /\ logged = <<>>
    /\ windowSize = <<800, 600>> /\ trace = <<>>

NextLoop ==
    \/ PostEvent \/ LoopEnter \/ LoopExit \/ PollEvent \/ DrainEnd
    \/ Update \/ SetColorBlack \/ RenderClear \/ SetColorRed \/ RenderFillRect
    \/ RenderPresent \/ Pace
    \/ DestroyRenderer \/ DestroyWindow \/ SDLQuit

SpecLoop == InitLoop /\ [][NextLoop]_vars

\* ------------------------------------------- the update step as a function
\* Inputs of one update step: positions inside, on and outside the bounds,
\* whole and fractional; every flag combination; speeds and sizes.
XInputs == {Px(-30), Px(0), Px(1) + 1, Px(100), Px(200) + 16, Px(750), Px(760), Px(900)}
YInputs == {Px(-30), Px(0), Px(1) + 1, Px(100), Px(550), Px(560), Px(700)}
SpeedInputs == {Px(0), Px(5), Px(20)}
SizeInputs == {Px(0), Px(50), Px(600)}

InitUpdater ==
    /\ pc = "update"
    /\ sdl = TRUE /\ window = TRUE /\ renderer = TRUE
    /\ squareX \in XInputs /\ squareY \in YInputs
    /\ squareSize \in SizeInputs /\ moveSpeed \in SpeedInputs
    /\ windowWidth = Px(800) /\ windowHeight = Px(600)
    /\ movingUp \in BOOLEAN /\ movingDown \in BOOLEAN
    /\ movingLeft \in BOOLEAN /\ movingRight \in BOOLEAN
    /\ running = TRUE
    /\ queue = <<>>
    /\ clock = {Ms(5)}
    /\ elapsedMS = -1 /\ delayMS = -1 /\ sleeps = {}
    /\ exitCode = -1
    /\ frame = 1 /\ posted = 0 /\ lastId = 0
    /\ drained = <<>> /\ flags0 = Flags
    /\ prevPos = <<squareX, squareY>> /\ drawn = <<>>
    /\ acquired = <<"sdl", "window", "renderer">> /\ released = <<>>
    /\ logged = <<>>
    /\ windowSize = <<800, 600>> /\ trace = <<"frameStart", "poll">>

NextUpdater == Update

SpecUpdater == InitUpdater /\ [][NextUpdater]_vars

\* ------------------------------------------- the loop without any input
\* The loop from its first test with no event ever posted, on a clock that
\* produces every frame time of ElapsedInputs.
InitPace ==
    /\ pc = "loop"
    /\ sdl = TRUE /\ window = TRUE /\ renderer = TRUE
    /\ squareX = Px(100) /\ squareY = Px(100)
    /\ squareSize = Px(50) /\ moveSpeed = Px(5)
    /\ windowWidth = Px(800) /\ windowHeight = Px(600)
    /\ movingUp = FALSE /\ movingDown = FALSE
    /\ movingLeft = FALSE /\ movingRight = FALSE
    /\ running = TRUE
    /\ queue = <<>>
    /\ clock = ElapsedInputs
    /\ elapsedMS = -1 /\ delayMS = -1 /\ sleeps = {}
    /\ exitCode = -1
    /\ frame = 0 /\ posted = 0 /\ lastId = 0
    /\ drained = <<>> /\ flags0 = NoFlags
    /\ prevPos = <<squareX, squareY>> /\ drawn = <<>>
    /\ acquired = <<"sdl", "window", "renderer">> /\ released = <<>>
    /\ logged = <<>>
    /\ windowSize = <<800, 600>> /\ trace = <<>>

NextPace ==
    \/ LoopEnter \/ DrainEnd \/ Update \/ SetColorBlack \/ RenderClear
    \/ SetColorRed \/ RenderFillRect \/ RenderPresent \/ Pace

SpecPace == InitPace /\ [][NextPace]_vars

\* ---------------------------------------------------------------- helpers
Reverse(s) == [i \in 1..Len(s) |-> s[Len(s) + 1 - i]]

\* 0 <= x <= windowWidth - size and 0 <= y <= windowHeight - size, exactly
InBounds(p) ==
    /\ 0 <= p[1] /\ p[1] <= windowWidth - squareSize
    /\ 0 <= p[2] /\ p[2] <= windowHeight - squareSize

WholePx(n) == n % Unit = 0

\* the loop body is executing (between the loop test and the end of pacing)
InBody == pc \in {"poll", "update", "colorBlack", "clear", "colorRed", "fill",
                  "present", "pace"}
Updated == pc \in {"colorBlack", "clear", "colorRed", "fill", "present", "pace"}
QuitDrained == \E i \in 1..Len(drained) : drained[i].type = "QUIT"

Pos == <<squareX, squareY>>

\* ================================================================= claims

\* C1: in every state of the loop the square is inside the window,
\* 0 <= x <= windowWidth - size and 0 <= y <= windowHeight - size, and so is
\* every rectangle origin handed to SDL_RenderFillRect.
C1_PositionInBounds ==
    /\ InBounds(Pos)
    /\ drawn # <<>> => InBounds(drawn)

\* the left key is held at the left edge: the move gave -5, the clamp gave 0,
\* and 0 was handed to the renderer
C1_Witness ==
    /\ pc = "present"
    /\ movingLeft /\ ~movingRight
    /\ prevPos[1] = Px(0)
    /\ drawn # <<>> /\ drawn[1] = Px(0)

\* C2 as stated: once the drain has seen a quit event (running is false), no
\* position update and no render-submit occurs, the frame of the quit included.
C2_NoUpdateAfterQuit == (frame >= 1 /\ ~running) => ~Updated

\* C2 amended: the iteration whose drain saw the quit event runs to its end
\* (rest of the drain, one update, one render-submit, one pacing step); the
\* loop test then leaves the loop, so the loop body never runs in a later
\* iteration: whenever the body runs with running false, the quit event was
\* dequeued in this very iteration.
C2_QuitEndsLoopAfterFrame ==
    /\ (frame >= 1 /\ ~running /\ InBody) => QuitDrained
    /\ (frame >= 1 /\ ~running /\ pc = "loop") =>
          (ENABLED LoopExit /\ ~ENABLED LoopEnter)

\* the quit frame has been updated and rendered and is about to be paced
C2_Witness ==
    /\ pc = "pace" /\ ~running /\ QuitDrained
    /\ drawn = Pos

\* C3: on every path the resources released so far are the most recently
\* acquired ones, latest first, each once; when main returns, everything
\* acquired has been released and nothing is live.
C3_ReleaseReverseOnce ==
    /\ Len(released) <= Len(acquired)
    /\ \A i \in 1..Len(released) : released[i] = Reverse(acquired)[i]
    /\ \A i, j \in 1..Len(acquired) : acquired[i] = acquired[j] => i = j
    /\ sdl = (\E i \in 1..Len(acquired) - Len(released) : acquired[i] = "sdl")
    /\ window = (\E i \in 1..Len(acquired) - Len(released) : acquired[i] = "window")
    /\ renderer = (\E i \in 1..Len(acquired) - Len(released) : acquired[i] = "renderer")
    /\ pc = "done" => released = Reverse(acquired)

\* main returned after a quit: renderer, window and SDL released in that order
C3_Witness ==
    /\ pc = "done"
    /\ acquired = <<"sdl", "window", "renderer">>
    /\ released = <<"renderer", "window", "sdl">>
    /\ ~sdl /\ ~window /\ ~renderer

\* C4: main returns 0 exactly when the loop ended on a dequeued quit event and
\* 1 exactly when SDL_Init or the window creation failed; a failure logs one
\* diagnostic, never enters the loop and initialises nothing a second time.
C4_ExitCodes ==
    /\ pc # "done" => exitCode = -1
    /\ pc = "done" =>
          /\ exitCode \in {0, 1}
          /\ exitCode = 0 <=> (frame >= 1 /\ ~running /\ QuitDrained)
          /\ exitCode = 1 <=> acquired \in {<<>>, <<"sdl">>}
          /\ exitCode = 1 =>
                /\ Len(logged) = 1
                /\ acquired = <<>> <=> logged = <<"Failed to initialize video!">>
                /\ frame = 0 /\ lastId = 0 /\ drained = <<>>
                /\ prevPos = <<0, 0>> /\ drawn = <<>> /\ delayMS = -1

\* SDL_Init failed: exit code 1, one diagnostic, nothing acquired
C4_Witness ==
    /\ pc = "done" /\ exitCode = 1
    /\ acquired = <<>>
    /\ logged = <<"Failed to initialize video!">>

\* The kind of the last key event for scancode sc dequeued in this iteration
\* (TRUE: press, FALSE: release), or `before` when there was none.
LastKeyKind(sc, before) ==
    LET idx == {i \in 1..Len(drained) :
                  drained[i].scancode = sc /\ drained[i].type \in {"KEY_DOWN", "KEY_UP"}}
    IN  IF idx = {} THEN before
        ELSE drained[CHOOSE i \in idx : \A j \in idx : j <= i].type = "KEY_DOWN"

\* C5: during and after a drain each flag equals the kind of the last event
\* for its key dequeued in this iteration, or its value before the drain.
C5_FlagIsLastKeyEvent ==
    (frame >= 1 /\ (InBody \/ pc = "loop")) =>
        /\ movingUp = LastKeyKind("W", flags0.up)
        /\ movingDown = LastKeyKind("S", flags0.down)
        /\ movingLeft = LastKeyKind("A", flags0.left)
        /\ movingRight = LastKeyKind("D", flags0.right)

\* one drain took a release of A and then a press of A: the press wins
C5_Witness ==
    /\ pc = "update"
    /\ Len(drained) = 2
    /\ drained[1].type = "KEY_UP" /\ drained[1].scancode = "A"
    /\ drained[2].type = "KEY_DOWN" /\ drained[2].scancode = "A"
    /\ movingLeft

\* A step that changes a flag dequeues a key event for W, S, A or D and
\* changes no flag but that key's; a step of the drain leaves the position.
C6_FlagStep ==
    /\ Flags' # Flags =>
          /\ pc = "poll" /\ queue # <<>>
          /\ Head(queue).type \in {"KEY_DOWN", "KEY_UP"}
          /\ Head(queue).scancode \in {"W", "S", "A", "D"}
          /\ Head(queue).scancode # "W" => movingUp' = movingUp
          /\ Head(queue).scancode # "S" => movingDown' = movingDown
          /\ Head(queue).scancode # "A" => movingLeft' = movingLeft
          /\ Head(queue).scancode # "D" => movingRight' = movingRight
    /\ pc = "poll" => Pos' = Pos

C7_QueueOrder ==
    /\ lastId + Len(queue) = posted
    /\ \A i \in 1..Len(queue) : queue[i].id = lastId + i
    /\ \A i \in 1..Len(drained) : drained[i].id = lastId - Len(drained) + i

\* The drain is left only for the update step, only on an empty queue and
\* with nothing but the position in the code changed; the position is
\* updated only from there.
C7_DrainStep ==
    /\ (pc = "poll" /\ pc' # "poll") =>
          /\ queue = <<>> /\ pc' = "update"
          /\ UNCHANGED <<resVars, posVars, geomVars, flagVars, running, queue,
                         paceVars, exitCode, obsVars, logged>>
    /\ lastId' # lastId =>
          /\ pc = "poll" /\ queue # <<>>
          /\ lastId' = Head(queue).id /\ queue' = Tail(queue)
    /\ prevPos' # prevPos => pc = "update"

\* C7: every iteration's drain dequeues every queued event once, in arrival
\* order, and ends on an empty queue before the position update starts; the
\* empty queue ends the drain with no state change.
C7_DrainAllInOrder == []C7_QueueOrder /\ [][C7_DrainStep]_vars

\* a drain dequeued two events, found the queue empty and went on to update
C7_Witness ==
    /\ pc = "update"
    /\ Len(drained) = 2 /\ lastId = 2
    /\ queue = <<>>

C10_NoInputNoMove ==
    (pc = "colorBlack" /\ Flags = NoFlags /\ InBounds(prevPos)) => Pos = prevPos

\* no key held in the bottom-right corner, speed 20: the square stays
C10_Witness ==
    /\ pc = "colorBlack"
    /\ Flags = NoFlags
    /\ moveSpeed = Px(20) /\ squareSize = Px(50)
    /\ prevPos = <<Px(750), Px(550)>>
    /\ Pos = prevPos

\* The coordinates as lines 121-124 leave them, before the clamps.
MovedX == Move(prevPos[1], movingLeft, movingRight, moveSpeed)
MovedY == Move(prevPos[2], movingUp, movingDown, moveSpeed)

Paced == pc = "loop" /\ frame >= 1

\* C12: if the frame's elapsed time is below the target, SDL_Delay is called
\* with target - elapsed in whole milliseconds (the fraction dropped, so 5 ms
\* against the 16.67 ms target requests 11 ms); if it is equal to or above the
\* target, SDL_Delay is not called.
C12_SleepIsRemainder ==
    Paced =>
        /\ elapsedMS >= TargetFrameTimeMS =>
              /\ delayMS = -1
              /\ trace[Len(trace)] = "frameEnd"
        /\ elapsedMS < TargetFrameTimeMS =>
              /\ delayMS >= 0
              /\ delayMS * Unit <= TargetFrameTimeMS - elapsedMS
              /\ TargetFrameTimeMS - elapsedMS < (delayMS + 1) * Unit
              /\ trace[Len(trace)] = "delay"

\* 5 ms of work: SDL_Delay(11)
C12_Witness ==
    /\ Paced
    /\ elapsedMS = Ms(5)
    /\ delayMS = 11
    /\ trace[Len(trace)] = "delay"

IsPrefix(a, b) == Len(a) <= Len(b) /\ \A i \in 1..Len(a) : a[i] = b[i]
Polls(n) == [i \in 1..n |-> "poll"]
PollCount == Cardinality({i \in 1..Len(trace) : trace[i] = "poll"})

\* the trace with both SDL_SetRenderDrawColor calls named alike
Generic(t) ==
    [i \in 1..Len(t) |->
        IF t[i] \in {"setColorBlack", "setColorRed"} THEN "setColor" ELSE t[i]]

\* C14 as stated: the steps of an iteration are, in this order and each once,
\* the start timestamp, the polls of the drain, the update, then clear, set
\* color, fill rect, present, then the measurement and the sleep.
C14_StepOrderAsStated ==
    frame >= 1 =>
        IsPrefix(Generic(trace),
                 <<"frameStart">> \o Polls(PollCount)
                 \o <<"update", "clear", "setColor", "fillRect", "present",
                      "frameEnd", "delay">>)

\* C14 amended: the same with the draw color set twice, to black before the
\* clear and to red before the fill; an iteration that reached the loop test
\* has run every step, its drain polling once per dequeued event and once
\* more to find the queue empty, and present is the step right before the
\* measurement.
C14_StepOrder ==
    frame >= 1 =>
        /\ IsPrefix(trace,
                    <<"frameStart">> \o Polls(PollCount)
                    \o <<"update", "setColorBlack", "clear", "setColorRed",
                         "fillRect", "present", "frameEnd", "delay">>)
        /\ pc = "poll" => PollCount = Len(drained) /\ Len(trace) = 1 + PollCount
        /\ pc # "poll" => PollCount = Len(drained) + 1
        /\ pc = "update" => Len(trace) = 1 + PollCount
        /\ pc = "pace" => Len(trace) = PollCount + 7 /\ trace[Len(trace)] = "present"
        /\ Paced => Len(trace) = PollCount + (IF delayMS = -1 THEN 8 ELSE 9)

\* an iteration that dequeued two events ran all its steps and slept
C14_Witness ==
    /\ Paced /\ Len(drained) = 2
    /\ trace = <<"frameStart", "poll", "poll", "poll", "update",
                 "setColorBlack", "clear", "setColorRed", "fillRect",
                 "present", "frameEnd", "delay">>

\* ------------------------------------------------ the loop, run to its end
\* The loop from its first test at (100,100).  main is one sequential thread
\* and every SDL call returns, so a step of the program that is possible is
\* eventually taken; the windowing system is free to post events or not, and
\* what it posts here is the quit event and the press and release of D.
InitLive == InitLoop /\ squareX = Px(100) /\ squareY = Px(100)

LiveKinds ==
    {[type |-> "QUIT", scancode |-> "NONE"],
     [type |-> "KEY_DOWN", scancode |-> "D"], [type |-> "KEY_UP", scancode |-> "D"]}

PostLive ==
    /\ PostEvent
    /\ [type |-> queue'[Len(queue')].type,
        scancode |-> queue'[Len(queue')].scancode] \in LiveKinds

ProgramStep ==
    \/ LoopEnter \/ LoopExit \/ PollEvent \/ DrainEnd
    \/ Update \/ SetColorBlack \/ RenderClear \/ SetColorRed \/ RenderFillRect
    \/ RenderPresent \/ Pace
    \/ DestroyRenderer \/ DestroyWindow \/ SDLQuit

NextLive == PostLive \/ ProgramStep

SpecLive == InitLive /\ [][NextLive]_vars /\ WF_vars(ProgramStep)

\* Running: the loop is at its test or in its body with running true;
\* Stopped: the loop has been left.
Stopped == pc \in {"destroyRenderer", "destroyWindow", "quit", "done"}
QuitPending == \E i \in 1..Len(queue) : queue[i].type = "QUIT"

\* Once running is false it stays false; once the loop is left it stays left
\* and nothing is polled, updated, rendered or slept.
C15_StoppedStep ==
    /\ ~running => ~running'
    /\ Stopped =>
          /\ Stopped'
          /\ UNCHANGED <<running, frame, lastId, drained, queue, posVars,
                         flagVars, prevPos, drawn, trace, paceVars>>

\* C15: the loop starts with running true; running goes false and the loop is
\* left only after a quit event was dequeued; Stopped is terminal; and a quit
\* event in the queue leads to Stopped (as long as the explored run has an
\* iteration left to dequeue it).
C15_Lifecycle ==
    /\ [](pc = "loop" /\ frame = 0 => running)
    /\ []((~running \/ Stopped) => QuitDrained)
    /\ [][C15_StoppedStep]_vars
    /\ (QuitPending /\ (frame < MaxFrames \/ pc = "poll")) ~> (pc = "done")

\* main has returned after a quit and a later event is still in the queue:
\* nothing polls it
C15_Witness ==
    /\ pc = "done" /\ ~running /\ QuitDrained
    /\ exitCode = 0
    /\ queue # <<>>

\* Only the read at startup writes the bounds.
C16_BoundsStep ==
    <<windowWidth, windowHeight>>' # <<windowWidth, windowHeight>> => pc = "setup"

\* C16: the bounds the clamp uses are the window size read at startup
\* (800x600) in every state of the loop and after it; no event, a resize
\* included, and no loop step changes them.
C16_BoundsFixed ==
    /\ []((InLoop \/ (Stopped /\ exitCode # 1))
            => (windowWidth = Px(800) /\ windowHeight = Px(600)))
    /\ [][C16_BoundsStep]_vars

\* a resize event has been dequeued and the position updated: the window is
\* 640x480 now and the clamp still uses 800x600
C16_Witness ==
    /\ Updated
    /\ \E i \in 1..Len(drained) : drained[i].type = "WINDOW_RESIZED"
    /\ windowSize = <<640, 480>>
    /\ windowWidth = Px(800) /\ windowHeight = Px(600)

Count(step) == Cardinality({i \in 1..Len(trace) : trace[i] = step})

\* C17: a dequeued quit ends neither the drain nor the iteration.  While the
\* queue is not empty the drain goes on after the quit; once the drain is
\* over every dequeued event, those behind the quit included, has been
\* applied to the flags; and the iteration runs its update, its render and
\* its pacing step exactly once each before the loop test, which then leaves
\* the loop.
C17_QuitFrameRunsToEnd ==
    /\ (pc = "poll" /\ ~running /\ queue # <<>>) =>
          (ENABLED PollEvent /\ ~ENABLED DrainEnd)
    /\ (frame >= 1 /\ QuitDrained /\ pc # "poll") =>
          /\ PollCount = Len(drained) + 1
          /\ movingUp = LastKeyKind("W", flags0.up)
          /\ movingDown = LastKeyKind("S", flags0.down)
          /\ movingLeft = LastKeyKind("A", flags0.left)
          /\ movingRight = LastKeyKind("D", flags0.right)
    /\ (Paced /\ ~running) =>
          /\ QuitDrained
          /\ Count("update") = 1 /\ Count("clear") = 1
          /\ Count("fillRect") = 1 /\ Count("present") = 1
          /\ Count("frameEnd") = 1
          /\ drawn = Pos
          /\ ENABLED LoopExit /\ ~ENABLED LoopEnter

\* a press of D was queued behind the quit: it was dequeued in the same
\* iteration and that iteration's update moved the square right by 5
C17_Witness ==
    /\ Paced /\ ~running
    /\ Len(drained) = 2
    /\ drained[1].type = "QUIT"
    /\ drained[2].type = "KEY_DOWN" /\ drained[2].scancode = "D"
    /\ movingRight
    /\ prevPos = <<Px(100), Px(100)>> /\ Pos = <<Px(105), Px(100)>>

MoveKeys == {"W", "S", "A", "D"}

FlagOf(f, sc) ==
    CASE sc = "W" -> f.up
      [] sc = "S" -> f.down
      [] sc = "A" -> f.left
      [] sc = "D" -> f.right

\* the flags f with the flag of key sc as it is in g
WithFlagFrom(f, sc, g) ==
    CASE sc = "W" -> [f EXCEPT !.up = g.up]
      [] sc = "S" -> [f EXCEPT !.down = g.down]
      [] sc = "A" -> [f EXCEPT !.left = g.left]
      [] sc = "D" -> [f EXCEPT !.right = g.right]

\* the key events for scancode sc dequeued in this iteration, in order
KeySeq(sc) ==
    SelectSeq(drained, LAMBDA e : e.scancode = sc /\ e.type \in {"KEY_DOWN", "KEY_UP"})

\* this iteration's events for key sc are one press followed by one release
Tapped(sc) ==
    /\ Len(KeySeq(sc)) = 2
    /\ KeySeq(sc)[1].type = "KEY_DOWN"
    /\ KeySeq(sc)[2].type = "KEY_UP"

\* the position the update step gives from prevPos under the flags f
UpdatedFrom(f) ==
    <<UpdateX(prevPos[1], f.left, f.right, moveSpeed, squareSize, windowWidth),
      UpdateY(prevPos[2], f.up, f.down, moveSpeed, squareSize, windowHeight)>>

C19_FlagStep ==
    \A sc \in MoveKeys :
        (FlagOf(Flags, sc) /\ ~FlagOf(Flags', sc)) =>
            /\ pc = "poll" /\ queue # <<>>
            /\ Head(queue).type = "KEY_UP" /\ Head(queue).scancode = sc

\* One update with exactly one flag of an axis set: a coordinate off the
\* edge moves by moveSpeed towards it and does not pass it, a coordinate on
\* the edge stays.  Every coordinate is a whole number of steps away from
\* both edges, so the edge is reached after distance / moveSpeed frames.
C19_HeldStep ==
    Updated =>
        /\ prevPos[1] % moveSpeed = 0 /\ prevPos[2] % moveSpeed = 0
        /\ (windowWidth - squareSize) % moveSpeed = 0
        /\ (windowHeight - squareSize) % moveSpeed = 0
        /\ (movingLeft /\ ~movingRight) =>
              squareX = (IF prevPos[1] > 0 THEN prevPos[1] - moveSpeed ELSE 0)
        /\ (movingRight /\ ~movingLeft) =>
              squareX = (IF prevPos[1] < windowWidth - squareSize
                         THEN prevPos[1] + moveSpeed ELSE windowWidth - squareSize)
        /\ (movingUp /\ ~movingDown) =>
              squareY = (IF prevPos[2] > 0 THEN prevPos[2] - moveSpeed ELSE 0)
        /\ (movingDown /\ ~movingUp) =>
              squareY = (IF prevPos[2] < windowHeight - squareSize
                         THEN prevPos[2] + moveSpeed ELSE windowHeight - squareSize)

\* C19: a flag set by a press persists over the frames until the matching
\* release is dequeued; while exactly one flag of an axis is set every frame
\* moves the coordinate by moveSpeed towards that edge until it is exactly on
\* the edge, and from then on every frame leaves it there.
C19_HeldKeyReachesEdge == []C19_HeldStep /\ [][C19_FlagStep]_vars

\* A was pressed at x = 5 in an earlier frame and is still held: the square
\* reached x = 0 and this frame, with no event, left it there
C19_Witness ==
    /\ Updated /\ frame = 3
    /\ drained = <<>>
    /\ flags0.left /\ movingLeft /\ ~movingRight
    /\ prevPos[1] = Px(0) /\ squareX = Px(0)

====
